---- MODULE Spec2Model ----
(***************************************************************************)
(* Model of tg_kngfn_bot.py: the registration / draw / export handlers of  *)
(* the raffle bot, the asyncio lock that guards registration and draw, and *)
(* the participants table they read and write.                             *)
(*                                                                         *)
(* Every handler invocation is a task of the event loop.  A task runs      *)
(* atomically between two awaits; the awaits that matter are the wait for  *)
(* the lock (`async with lock`) and the wait for the worker thread         *)
(* (`await asyncio.to_thread(_inner)`).  Handlers of different updates may *)
(* interleave at these awaits, which is the case the lock exists for.      *)
(* Texts, emails and display codes are sequences of one-character strings. *)
(***************************************************************************)
EXTENDS Naturals, Sequences, FiniteSets

VARIABLES
    adminId,   \* ADMIN_ID, read from the environment at start-up
    req,       \* req[t]: the update handled by task t
    pc,        \* pc[t]: where task t is suspended
    ret,       \* ret[t]: what the worker thread of t's store call returns
    reply,     \* reply[t]: what the handler sent back to the chat
    rows,      \* the participants table: a set of [id, email] rows
    seq,       \* the next value of the SERIAL sequence participants_id_seq
    locked,    \* asyncio.Lock._locked
    waiters,   \* asyncio.Lock._waiters, in arrival order
    log        \* history: the INSERT statements executed, in order

vars == <<adminId, req, pc, ret, reply, rows, seq, locked, waiters, log>>

\* ---------------------------------------------------------------- bounds

\* Number of updates handled (tasks created) in a run.
NumTasks == 3

Task == 1..NumTasks

\* ------------------------------------------------------------ input sets

\* Values ADMIN_ID can be configured to; 0 is the default, matched by no caller.
AdminIds == {0, 1}

\* update.effective_user of a command: a user with an id, or no user (id unused).
EffectiveUsers ==
    {[has |-> TRUE, id |-> 1], [has |-> TRUE, id |-> 2], [has |-> FALSE, id |-> 0]}

EmailA == <<"a", "@", "b", ".", "c", "o", "m">>
EmailAPadded == <<" ", "a", "@", "b", ".", "c", "o", "m", " ">>
EmailC == <<"c", "@", "d", ".", "c", "o", "m">>
NoAt == <<"a", "b", ".", "c", "o", "m">>
NoDot == <<"a", "@", "b">>

\* Message texts a user may send.
Texts == {EmailA, EmailAPadded, EmailC, NoAt, NoDot}

\* ------------------------------------------------------- pure functions

Range(s) == {s[i] : i \in 1..Len(s)}

Whitespace == {" ", "\n", "\t"}

RECURSIVE lstrip(_)
lstrip(s) == IF s # <<>> /\ Head(s) \in Whitespace THEN lstrip(Tail(s)) ELSE s

RECURSIVE rstrip(_)
rstrip(s) ==
    IF s # <<>> /\ s[Len(s)] \in Whitespace
    THEN rstrip(SubSeq(s, 1, Len(s) - 1))
    ELSE s

\* str.strip()
strip(s) == rstrip(lstrip(s))

\* Faulty variant of IsEmailShaped: `and` in place of `or` in the rejection test.
IsEmailShaped_EitherChar(text) == "@" \in Range(text) \/ "." \in Range(text)

\* not ("@" not in text or "." not in text)
IsEmailShaped(text) == "@" \in Range(text) /\ "." \in Range(text)

DigitChars == <<"0", "1", "2", "3", "4", "5", "6", "7", "8", "9">>

RECURSIVE Decimal(_)
Decimal(n) ==
    IF n < 10 THEN <<DigitChars[n + 1]>>
    ELSE Decimal(n \div 10) \o <<DigitChars[(n % 10) + 1]>>

RECURSIVE ZeroPad(_, _)
ZeroPad(s, width) == IF Len(s) >= width THEN s ELSE ZeroPad(<<"0">> \o s, width)

\* f"USER{new_id:03}"
UserCode(id) == <<"U", "S", "E", "R">> \o ZeroPad(Decimal(id), 3)

\* Faulty variant of IsAdmin: a missing effective_user is given the id 0.
IsAdmin_NoUserIsZero(user) == user.id = adminId

\* user_id = update.effective_user.id if update.effective_user else None
\* not (user_id != ADMIN_ID): None differs from every integer
IsAdmin(user) == user.has /\ user.id = adminId

Ids(rs) == {r.id : r \in rs}
Emails(rs) == {r.email : r \in rs}

MinId(rs) == CHOOSE r \in rs : \A q \in rs : r.id <= q.id

\* A sequence order on emails, used only by the faulty variant of OrderById.
EmailRank(e) == IF e = EmailA THEN 1 ELSE 2
MinEmail(rs) == CHOOSE r \in rs : \A q \in rs : EmailRank(r.email) <= EmailRank(q.email)

\* Faulty variant of OrderById: ORDER BY email.
RECURSIVE OrderByEmail(_)
OrderByEmail(rs) ==
    IF rs = {} THEN <<>>
    ELSE LET m == MinEmail(rs) IN <<m>> \o OrderByEmail(rs \ {m})

\* SELECT id, email FROM participants ORDER BY id
RECURSIVE OrderById(_)
OrderById(rs) ==
    IF rs = {} THEN <<>>
    ELSE LET m == MinId(rs) IN <<m>> \o OrderById(rs \ {m})

\* Faulty variant of InsertOnConflictDoNothing: a plain INSERT on a table
\* without the UNIQUE constraint.
InsertAlways(rs, id, email) == rs \cup {[id |-> id, email |-> email]}

\* INSERT INTO participants (email) VALUES (%s) ON CONFLICT (email) DO NOTHING
InsertOnConflictDoNothing(rs, id, email) ==
    IF email \in Emails(rs) THEN rs ELSE rs \cup {[id |-> id, email |-> email]}

\* Faulty variant of Nextval: the sequence advances only when a row is inserted.
NextvalOnInsertOnly(s, conflict) == IF conflict THEN s ELSE s + 1

\* id SERIAL: the column default nextval('participants_id_seq') is evaluated
\* for the proposed row before the conflict on email is detected, so every
\* executed INSERT advances the sequence, also one that inserts nothing.
Nextval(s, conflict) == s + 1

\* Faulty variant of RandomChoice: a draw over the id range 1..max(id).
RandomChoiceOfRange(ids) == IF ids = {} THEN {} ELSE 1..(CHOOSE m \in ids : \A i \in ids : i <= m)

\* random.choice(rows): the ids it can return
RandomChoice(ids) == ids

\* ------------------------------------------------------------- records

NoRet == [newId |-> 0, ids |-> {}, rows |-> <<>>]
NoUser == [has |-> FALSE, id |-> 0]
NoReq == [kind |-> "none", hasMessage |-> FALSE, text |-> <<>>, user |-> NoUser]

\* A reply: the fixed text sent (kind), the values interpolated into it
\* (args) and the rows of the attached document (doc).  None of the fixed
\* texts of the source contains an "@".
Reply(kind, args, doc) == [kind |-> kind, args |-> args, doc |-> doc]
NoReply == Reply("none", <<>>, <<>>)

\* Faulty variant of RegisteredReply: the reply echoes the email.
RegisteredReplyEcho(user_code, text) == Reply("Registered", <<user_code, text>>, <<>>)

\* f"Ты успешно зарегистрирован! Твой ID для розыгрыша: {user_code}. ..."
RegisteredReply(user_code, text) == Reply("Registered", <<user_code>>, <<>>)

\* ---------------------------------------------------------------- Init

Init ==
    /\ adminId \in AdminIds
    /\ req = [t \in Task |-> NoReq]
    /\ pc = [t \in Task |-> "idle"]
    /\ ret = [t \in Task |-> NoRet]
    /\ reply = [t \in Task |-> NoReply]
    /\ rows = {}
    /\ seq = 1
    /\ locked = FALSE
    /\ waiters = <<>>
    /\ log = <<>>

\* Updates are taken from the update queue in order.
CanDispatch(t) == pc[t] = "idle" /\ (IF t = 1 THEN TRUE ELSE pc[t - 1] # "idle")

\* ---------------------------------------------------------------- lock

\* `async with lock:` entered by task t: Lock.acquire() takes a free lock
\* with no waiter at once, and queues the task otherwise.
LockEnter(t) ==
    IF ~locked /\ waiters = <<>>
    THEN /\ locked' = TRUE
         /\ waiters' = waiters
         /\ pc' = [pc EXCEPT ![t] = "in_call"]
    ELSE /\ locked' = locked
         /\ waiters' = Append(waiters, t)
         /\ pc' = [pc EXCEPT ![t] = "wait_lock"]

\* Lock.release(): the lock is freed and the first waiter is woken.
LockRelease == locked' = FALSE /\ waiters' = waiters

\* The first waiter, woken by a release, resumes in Lock.acquire(), takes
\* the lock and goes on to its store call.
LockWake(t) ==
    /\ pc[t] = "wait_lock"
    /\ ~locked
    /\ waiters # <<>> /\ Head(waiters) = t
    /\ locked' = TRUE
    /\ waiters' = Tail(waiters)
    /\ pc' = [pc EXCEPT ![t] = "in_call"]
    /\ UNCHANGED <<adminId, req, ret, reply, rows, seq, log>>

\* ------------------------------------------------------------ handlers

\* handle_email up to its first suspension: the update of task t is a
\* non-command text message (hasMessage) or an update without .message.
handle_email(t) ==
    /\ CanDispatch(t)
    /\ \E hasMessage \in BOOLEAN, raw \in Texts :
        LET text == strip(raw) IN
        /\ hasMessage \/ raw = EmailA
        /\ req' = [req EXCEPT ![t] = [kind |-> "email", hasMessage |-> hasMessage,
                                      text |-> IF hasMessage THEN raw ELSE <<>>,
                                      user |-> NoUser]]
        /\ IF ~hasMessage
           THEN /\ pc' = [pc EXCEPT ![t] = "done"]
                /\ UNCHANGED <<reply, locked, waiters>>
           ELSE IF ~IsEmailShaped(text)
           THEN /\ pc' = [pc EXCEPT ![t] = "done"]
                /\ reply' = [reply EXCEPT ![t] = Reply("Invalid", <<>>, <<>>)]
                /\ UNCHANGED <<locked, waiters>>
           ELSE /\ LockEnter(t)
                /\ UNCHANGED reply
    /\ UNCHANGED <<adminId, ret, rows, seq, log>>

\* raffle up to its first suspension.
raffle(t) ==
    /\ CanDispatch(t)
    /\ \E user \in EffectiveUsers :
        /\ req' = [req EXCEPT ![t] = [kind |-> "raffle", hasMessage |-> TRUE,
                                      text |-> <<>>, user |-> user]]
        /\ IF ~IsAdmin(user)
           THEN /\ pc' = [pc EXCEPT ![t] = "done"]
                /\ reply' = [reply EXCEPT ![t] = Reply("Unauthorized", <<>>, <<>>)]
                /\ UNCHANGED <<locked, waiters>>
           ELSE /\ LockEnter(t)
                /\ UNCHANGED reply
    /\ UNCHANGED <<adminId, ret, rows, seq, log>>

\* export_participants up to its first suspension: no lock is taken.
export_participants(t) ==
    /\ CanDispatch(t)
    /\ \E user \in EffectiveUsers :
        /\ req' = [req EXCEPT ![t] = [kind |-> "export", hasMessage |-> TRUE,
                                      text |-> <<>>, user |-> user]]
        /\ IF ~IsAdmin(user)
           THEN /\ pc' = [pc EXCEPT ![t] = "done"]
                /\ reply' = [reply EXCEPT ![t] = Reply("Unauthorized", <<>>, <<>>)]
           ELSE /\ pc' = [pc EXCEPT ![t] = "in_call"]
                /\ UNCHANGED reply
    /\ UNCHANGED <<adminId, ret, rows, seq, locked, waiters, log>>

\* ---------------------------------------------------- leaving the lock

UsesLock(t) == req[t].kind \in {"email", "raffle"}

\* Faulty variant of ExitLockOnError: acquire() / release() without try/finally.
ExitLockOnError_Leak(t) == UNCHANGED <<locked, waiters>>

\* `async with lock:` left by an exception of the awaited store call.
ExitLockOnError(t) == IF UsesLock(t) THEN LockRelease ELSE UNCHANGED <<locked, waiters>>

\* ---------------------------------------- store calls (worker threads)

\* add_participant._inner: the INSERT is executed and committed.
add_participant_inner(t) ==
    /\ pc[t] = "in_call" /\ req[t].kind = "email"
    /\ LET email == strip(req[t].text)
           conflict == email \in Emails(rows)
           after == InsertOnConflictDoNothing(rows, seq, email)
           inserted == after # rows
       IN /\ rows' = after
          /\ seq' = Nextval(seq, conflict)
          \* RETURNING id: a row when one was inserted; row[0] if row else None
          /\ ret' = [ret EXCEPT ![t] = [NoRet EXCEPT !.newId = IF inserted THEN seq ELSE 0]]
          /\ log' = Append(log, [task |-> t, email |-> email,
                                 inserted |-> inserted, committed |-> TRUE])
    /\ pc' = [pc EXCEPT ![t] = "executed"]
    /\ UNCHANGED <<adminId, req, reply, locked, waiters>>

\* Faulty variant of pick_random_winner_inner: the drawn rows are deleted.
pick_random_winner_inner_Deleting(t) ==
    /\ pc[t] = "in_call" /\ req[t].kind = "raffle"
    /\ ret' = [ret EXCEPT ![t] = [NoRet EXCEPT !.ids = Ids(rows)]]
    /\ rows' = {}
    /\ pc' = [pc EXCEPT ![t] = "executed"]
    /\ UNCHANGED <<adminId, req, reply, seq, locked, waiters, log>>

\* pick_random_winner._inner: SELECT id FROM participants
pick_random_winner_inner(t) ==
    /\ pc[t] = "in_call" /\ req[t].kind = "raffle"
    /\ ret' = [ret EXCEPT ![t] = [NoRet EXCEPT !.ids = Ids(rows)]]
    /\ pc' = [pc EXCEPT ![t] = "executed"]
    /\ UNCHANGED <<adminId, req, reply, rows, seq, locked, waiters, log>>

\* fetch_all_participants._inner
fetch_all_participants_inner(t) ==
    /\ pc[t] = "in_call" /\ req[t].kind = "export"
    /\ ret' = [ret EXCEPT ![t] = [NoRet EXCEPT !.rows = OrderById(rows)]]
    /\ pc' = [pc EXCEPT ![t] = "executed"]
    /\ UNCHANGED <<adminId, req, reply, rows, seq, locked, waiters, log>>

\* ------------------------------------------- store failures and stalls

\* get_conn() raises: no statement was executed.
ConnectFail(t) ==
    /\ pc[t] = "in_call"
    /\ ExitLockOnError(t)
    /\ pc' = [pc EXCEPT ![t] = "raised"]
    /\ UNCHANGED <<adminId, req, ret, reply, rows, seq, log>>

\* The INSERT was executed, the commit failed: the transaction is rolled
\* back, the sequence value it drew is not given back.
RollbackFail(t) ==
    /\ pc[t] = "in_call" /\ req[t].kind = "email"
    /\ LET email == strip(req[t].text) IN
       /\ seq' = Nextval(seq, email \in Emails(rows))
       /\ log' = Append(log, [task |-> t, email |-> email,
                              inserted |-> FALSE, committed |-> FALSE])
    /\ ExitLockOnError(t)
    /\ pc' = [pc EXCEPT ![t] = "raised"]
    /\ UNCHANGED <<adminId, req, ret, reply, rows>>

\* The statement took effect and the call raised afterwards (the commit's
\* acknowledgement lost, close() raising).
LateFail(t) ==
    /\ pc[t] = "executed"
    /\ ExitLockOnError(t)
    /\ ret' = [ret EXCEPT ![t] = NoRet]
    /\ pc' = [pc EXCEPT ![t] = "raised"]
    /\ UNCHANGED <<adminId, req, reply, rows, seq, log>>

\* The store call never returns: no timeout is set anywhere.
Stall(t) ==
    /\ pc[t] \in {"in_call", "executed"}
    /\ pc' = [pc EXCEPT ![t] = "stalled"]
    /\ UNCHANGED <<adminId, req, ret, reply, rows, seq, locked, waiters, log>>

\* ---------------------------------------------- handlers, after the call

\* handle_email from the return of add_participant on.
handle_email_resume(t) ==
    /\ pc[t] = "executed" /\ req[t].kind = "email"
    /\ LockRelease
    /\ reply' = [reply EXCEPT ![t] =
                    IF ret[t].newId = 0
                    THEN Reply("AlreadyRegistered", <<>>, <<>>)
                    ELSE RegisteredReply(UserCode(ret[t].newId), strip(req[t].text))]
    /\ pc' = [pc EXCEPT ![t] = "done"]
    /\ UNCHANGED <<adminId, req, ret, rows, seq, log>>

\* raffle from the return of the SELECT on: random.choice and the reply.
raffle_resume(t) ==
    /\ pc[t] = "executed" /\ req[t].kind = "raffle"
    /\ LockRelease
    /\ IF ret[t].ids = {}
       THEN reply' = [reply EXCEPT ![t] = Reply("NoParticipants", <<>>, <<>>)]
       ELSE \E winner \in RandomChoice(ret[t].ids) :
                reply' = [reply EXCEPT ![t] = Reply("Winner", <<UserCode(winner)>>, <<>>)]
    /\ pc' = [pc EXCEPT ![t] = "done"]
    /\ UNCHANGED <<adminId, req, ret, rows, seq, log>>

\* export_participants from the return of fetch_all_participants on.
export_resume(t) ==
    /\ pc[t] = "executed" /\ req[t].kind = "export"
    /\ reply' = [reply EXCEPT ![t] =
                    IF ret[t].rows = <<>>
                    THEN Reply("Empty", <<>>, <<>>)
                    ELSE Reply("Exported", <<>>, ret[t].rows)]
    /\ pc' = [pc EXCEPT ![t] = "done"]
    /\ UNCHANGED <<adminId, req, ret, rows, seq, locked, waiters, log>>

\* ------------------------------------------------------- specification

Next ==
    \E t \in Task :
        \/ handle_email(t)
        \/ raffle(t)
        \/ export_participants(t)
        \/ LockWake(t)
        \/ add_participant_inner(t)
        \/ pick_random_winner_inner(t)
        \/ fetch_all_participants_inner(t)
        \/ ConnectFail(t)
        \/ RollbackFail(t)
        \/ LateFail(t)
        \/ Stall(t)
        \/ handle_email_resume(t)
        \/ raffle_resume(t)
        \/ export_resume(t)

Spec == Init /\ [][Next]_vars

\* ================================================================ claims

Steps(t) == pc'[t] # pc[t]
Committed(i) == log[i].committed
EntryOf(t) == {i \in 1..Len(log) : log[i].task = t}
LacksAtOrDot(s) == "@" \notin Range(s) \/ "." \notin Range(s)
Registration(t) == req[t].kind = "email" /\ req[t].hasMessage
Returned(t) == pc[t] = "done"

\* ---- C1

\* C1 (as amended): registration is idempotent per stripped email.  With
\* e the text stripped of surrounding whitespace: the first registration
\* whose INSERT of e commits inserts the row and every later one inserts
\* nothing, whatever the interleaving; a registration that returns replies
\* Registered when its INSERT created the row and AlreadyRegistered when
\* it did not; the store holds at most one row per email and every
\* registration adds zero or one row.
C1_IdempotentPerStrippedEmail ==
    /\ \A r1 \in rows, r2 \in rows : r1.email = r2.email => r1 = r2
    /\ Cardinality(rows) = Cardinality({i \in 1..Len(log) : log[i].inserted})
    /\ \A i \in 1..Len(log) :
        /\ log[i].email = strip(req[log[i].task].text)
        /\ log[i].inserted => Committed(i)
        /\ Committed(i) =>
              (log[i].inserted <=>
                 \A j \in 1..(i - 1) : ~(Committed(j) /\ log[j].email = log[i].email))
    /\ \A t \in Task :
        Registration(t) /\ Returned(t) /\ ~LacksAtOrDot(req[t].text) =>
            \E i \in EntryOf(t) :
                /\ Committed(i)
                /\ reply[t].kind = IF log[i].inserted THEN "Registered" ELSE "AlreadyRegistered"

\* Two texts that differ only in surrounding whitespace were registered:
\* one was Registered, the other AlreadyRegistered, and one row is stored.
C1_Witness ==
    \E t \in Task, u \in Task :
        /\ req[t].text = EmailAPadded /\ req[u].text = EmailA
        /\ Returned(t) /\ Returned(u)
        /\ reply[t].kind = "Registered" /\ reply[u].kind = "AlreadyRegistered"
        /\ Cardinality({r \in rows : r.email = EmailA}) = 1

\* C1 as stated, per input string s, in a run without store failure: the
\* first register(s) replies Registered, every later register(s)
\* AlreadyRegistered, and the store holds at most one row per email.
C1_Original ==
    /\ \A r1 \in rows, r2 \in rows : r1.email = r2.email => r1 = r2
    /\ \A i \in 1..Len(log) :
        Returned(log[i].task) /\ (\A t \in Task : pc[t] \notin {"raised", "stalled"}) =>
            (reply[log[i].task].kind = "Registered" <=>
               \A j \in 1..(i - 1) :
                   ~(Committed(j) /\ req[log[j].task].text = req[log[i].task].text))

\* ---- C2

C2_State ==
    \A t \in Task :
        Registration(t) /\ LacksAtOrDot(req[t].text) =>
            /\ pc[t] = "done"
            /\ reply[t] = Reply("Invalid", <<>>, <<>>)
            /\ ret[t] = NoRet
            /\ t \notin Range(waiters)
            /\ EntryOf(t) = {}

C2_Step ==
    \A t \in Task :
        Steps(t) /\ req'[t].kind = "email" /\ req'[t].hasMessage
                 /\ LacksAtOrDot(req'[t].text) =>
            UNCHANGED <<rows, seq, log, ret, locked, waiters>>

\* C2: a text lacking "@" or lacking "." is answered Invalid at once: the
\* task never waits for the lock nor issues a store call, and the step
\* that handles it changes neither the table, the sequence nor the lock.
C2_InvalidTouchesNothing == [](C2_State) /\ [][C2_Step]_vars

\* A text without "@" and one without "." were rejected while rows exist.
C2_Witness ==
    /\ rows # {}
    /\ \E t \in Task, u \in Task :
        /\ req[t].text = NoAt /\ req[u].text = NoDot
        /\ reply[t].kind = "Invalid" /\ reply[u].kind = "Invalid"

\* ---- C3

\* The scenario of C3: on the empty store with base id 1, the only INSERTs
\* executed are those of "a@b.com", "a@b.com", "c@d.com", in this order,
\* and the three registrations have returned.
C3_Scenario ==
    /\ Len(log) = 3
    /\ \A i \in 1..3 : Committed(i) /\ Returned(log[i].task)
    /\ req[log[1].task].text = EmailA
    /\ req[log[2].task].text = EmailA
    /\ req[log[3].task].text = EmailC

User001 == <<"U", "S", "E", "R", "0", "0", "1">>
User002 == <<"U", "S", "E", "R", "0", "0", "2">>
User003 == <<"U", "S", "E", "R", "0", "0", "3">>

\* C3 (as amended): register("a@b.com"), register("a@b.com"),
\* register("c@d.com") on the empty store with base id 1 return
\* Registered("USER001"), AlreadyRegistered, Registered("USER003"): the
\* rejected duplicate creates no row but draws a value from the sequence,
\* so the next new email gets a larger, not the next consecutive, code.
C3_DuplicateBurnsAnId ==
    C3_Scenario =>
        /\ reply[log[1].task] = Reply("Registered", <<User001>>, <<>>)
        /\ reply[log[2].task] = Reply("AlreadyRegistered", <<>>, <<>>)
        /\ reply[log[3].task] = Reply("Registered", <<User003>>, <<>>)
        /\ Ids(rows) = {1, 3}

C3_Witness == C3_Scenario

\* C3 as stated: the third registration returns Registered("USER002").
C3_Original ==
    C3_Scenario =>
        /\ reply[log[1].task] = Reply("Registered", <<User001>>, <<>>)
        /\ reply[log[2].task] = Reply("AlreadyRegistered", <<>>, <<>>)
        /\ reply[log[3].task] = Reply("Registered", <<User002>>, <<>>)

\* ---- C4

NotAdministrator(t) == ~(req[t].user.has /\ req[t].user.id = adminId)
Command(t) == req[t].kind \in {"raffle", "export"}

C4_State ==
    \A t \in Task :
        Command(t) /\ NotAdministrator(t) =>
            /\ pc[t] = "done"
            /\ reply[t] = Reply("Unauthorized", <<>>, <<>>)
            /\ ret[t] = NoRet
            /\ t \notin Range(waiters)

C4_Step ==
    \A t \in Task :
        Steps(t) /\ req'[t].kind \in {"raffle", "export"}
                 /\ ~(req'[t].user.has /\ req'[t].user.id = adminId) =>
            UNCHANGED <<rows, seq, log, ret, locked, waiters>>

\* C4: a draw or export command of a caller whose identity is not the
\* administrator's (a caller without identity included) is answered
\* Unauthorized at once, with no winner and no rows in the reply; the task
\* never reads the store nor waits for or takes the lock.
C4_UnauthorizedTouchesNothing == [](C4_State) /\ [][C4_Step]_vars

\* With participants stored, a draw by another user and an export by a
\* caller without identity were both refused.
C4_Witness ==
    /\ rows # {}
    /\ \E t \in Task, u \in Task :
        /\ req[t].kind = "raffle" /\ req[t].user.has /\ req[t].user.id # adminId
        /\ req[u].kind = "export" /\ ~req[u].user.has
        /\ reply[t].kind = "Unauthorized" /\ reply[u].kind = "Unauthorized"

\* ---- C5

AuthorizedDraw(t) == req[t].kind = "raffle" /\ ~NotAdministrator(t)

\* The reply follows from the ids read.
C5_Result ==
    \A t \in Task :
        AuthorizedDraw(t) /\ Returned(t) =>
            /\ reply[t].kind = "NoParticipants" <=> ret[t].ids = {}
            /\ ret[t].ids # {} =>
                  \E id \in ret[t].ids : reply[t] = Reply("Winner", <<UserCode(id)>>, <<>>)

\* Every id read is a possible outcome of the draw.
C5_EveryIdPossible ==
    \A t \in Task :
        AuthorizedDraw(t) /\ pc[t] = "executed" =>
            \A id \in ret[t].ids :
                ENABLED (raffle_resume(t) /\ reply'[t] = Reply("Winner", <<UserCode(id)>>, <<>>))

\* The ids read are those in the store at the read.
C5_Read ==
    \A t \in Task :
        AuthorizedDraw(t) /\ pc[t] = "in_call" /\ pc'[t] = "executed" =>
            ret'[t].ids = {r.id : r \in rows}

\* C5: an authorized draw replies NoParticipants exactly when the store
\* was empty at its read; otherwise it replies Winner(code) with the
\* Display Code of an id that was in the store at that read, and every
\* such id is a possible outcome.
C5_DrawOverStoredIds == [](C5_Result /\ C5_EveryIdPossible) /\ [][C5_Read]_vars

\* Draws returned: one on the empty store, and one, with exactly one
\* participant stored, with that participant's code.
C5_Witness ==
    \E t \in Task, u \in Task :
        /\ AuthorizedDraw(t) /\ Returned(t) /\ reply[t].kind = "NoParticipants"
        /\ AuthorizedDraw(u) /\ Returned(u) /\ ret[u].ids = {1}
        /\ reply[u].args = <<User001>>

\* ---- C6

\* C6: no step of a draw, authorized or not, with or without a winner,
\* changes the stored rows or the id sequence.
C6_DrawChangesNothing ==
    [][\A t \in Task :
          Steps(t) /\ req'[t].kind = "raffle" => UNCHANGED <<rows, seq>>]_vars

\* Two draws returned the same winner, who is still stored.
C6_Witness ==
    \E t \in Task, u \in Task :
        /\ t # u
        /\ AuthorizedDraw(t) /\ AuthorizedDraw(u)
        /\ reply[t].kind = "Winner" /\ reply[u] = reply[t]
        /\ \E r \in rows : reply[t].args = <<UserCode(r.id)>>

\* ---- C7

AuthorizedExport(t) == req[t].kind = "export" /\ ~NotAdministrator(t)

\* The emails that were inserted, in order of registration.
InsertedEmails == SelectSeq(log, LAMBDA e : e.inserted)

C7_Result ==
    \A t \in Task :
        AuthorizedExport(t) /\ Returned(t) =>
            LET doc == reply[t].doc IN
            /\ reply[t].kind = IF ret[t].rows = <<>> THEN "Empty" ELSE "Exported"
            /\ doc = ret[t].rows
            /\ \A k \in 1..Len(doc) :
                /\ doc[k] \in rows
                /\ k > 1 => doc[k - 1].id < doc[k].id
                /\ doc[k].email = InsertedEmails[k].email

C7_Step ==
    \A t \in Task :
        /\ Steps(t) /\ req'[t].kind = "export" => UNCHANGED <<rows, seq, locked, waiters>>
        /\ AuthorizedExport(t) /\ pc[t] = "in_call" /\ pc'[t] = "executed" =>
              /\ Range(ret'[t].rows) = rows
              /\ Len(ret'[t].rows) = Cardinality(rows)

\* C7: an authorized export returns every (id, email) pair stored at its
\* read exactly once, by ascending id, which is the order in which the
\* emails were first registered; it returns Empty when the store is
\* empty; no step of an export changes the store.
C7_ExportInRegistrationOrder == [](C7_Result) /\ [][C7_Step]_vars

\* An export returned "c@d.com" then "a@b.com", registered in this order.
C7_Witness ==
    \E t \in Task :
        /\ AuthorizedExport(t) /\ Returned(t)
        /\ Len(reply[t].doc) = 2
        /\ reply[t].doc[1].email = EmailC /\ reply[t].doc[2].email = EmailA

\* ---- C8

\* needle occurs in hay
Contains(hay, needle) ==
    \E i \in 0..Len(hay) :
        i + Len(needle) <= Len(hay) /\ SubSeq(hay, i + 1, i + Len(needle)) = needle

\* The reply shows the email: in an interpolated value or in the document.
Shows(r, email) ==
    \/ \E k \in 1..Len(r.args) : Contains(r.args[k], email)
    \/ \E k \in 1..Len(r.doc) : r.doc[k].email = email

\* C8: no reply to a registration or a draw shows a stored email; an
\* AlreadyRegistered reply carries no value at all (neither the email nor
\* the existing code); a reply that shows a stored email is the export
\* sent to a caller whose identity is the administrator's.
C8_EmailsOnlyInAdminExport ==
    \A t \in Task :
        /\ req[t].kind \in {"email", "raffle"} =>
              /\ reply[t].doc = <<>>
              /\ \A r \in rows : ~Shows(reply[t], r.email)
        /\ reply[t].kind = "AlreadyRegistered" => reply[t].args = <<>>
        /\ (\E r \in rows : Shows(reply[t], r.email)) =>
              /\ req[t].kind = "export"
              /\ req[t].user.has /\ req[t].user.id = adminId

\* A registration, a draw and an export have replied: only the export
\* shows the email.
C8_Witness ==
    \E t \in Task, u \in Task, v \in Task :
        /\ reply[t].kind = "Registered" /\ req[t].text = EmailA
        /\ reply[u].kind = "Winner"
        /\ reply[v].kind = "Exported" /\ Shows(reply[v], EmailA)

\* ---- C10

\* Task t is in the store interaction of a registration or a draw.
InGuardedCall(t) ==
    req[t].kind \in {"email", "raffle"} /\ pc[t] \in {"in_call", "executed", "stalled"}

\* C10: the lock is held exactly while a registration or draw task is in
\* its store interaction, by at most one task at a time; it is free again
\* once the interaction has returned or raised, and then the first waiter,
\* if any, can take it.
C10_LockHeldDuringStoreCall ==
    /\ locked <=> \E t \in Task : InGuardedCall(t)
    /\ \A t \in Task, u \in Task : InGuardedCall(t) /\ InGuardedCall(u) => t = u
    /\ \A t \in Task : pc[t] = "wait_lock" <=> t \in Range(waiters)
    /\ ~locked /\ waiters # <<>> => ENABLED LockWake(Head(waiters))

\* A registration raised in its store call while another request waited;
\* the waiting registration then took the lock and returned.
C10_Witness ==
    \E i \in 1..Len(log), j \in 1..Len(log) :
        /\ i < j
        /\ ~Committed(i) /\ pc[log[i].task] = "raised"
        /\ Committed(j) /\ Returned(log[j].task)
        /\ reply[log[j].task].kind = "Registered"
        /\ ~locked

\* ---- C9

\* Task u has been taken up and none of its steps can be taken.
Blocked(u) ==
    /\ pc[u] \in {"wait_lock", "in_call", "executed"}
    /\ ~ENABLED (\/ LockWake(u)
                 \/ add_participant_inner(u) \/ pick_random_winner_inner(u)
                 \/ fetch_all_participants_inner(u)
                 \/ handle_email_resume(u) \/ raffle_resume(u) \/ export_resume(u))

\* C9, as stated: while the store call of a registration or draw task
\* never completes, no other request that has been taken up is kept from
\* its next step, so each can run to its reply.
C9_StallBlocksOnlyIssuer ==
    \A t \in Task, u \in Task :
        pc[t] = "stalled" /\ InGuardedCall(t) /\ u # t => ~Blocked(u)

====
